---- MODULE Spec2Model ----
(***************************************************************************)
(* State-machine model of the VR fishing game:                             *)
(*   - FishManager  (src/modules/FishManager.js, lines 1-396)              *)
(*   - FishingRod   (src/modules/FishingRod.js, lines 1-673)               *)
(*   - SceneManager (src/modules/SceneManager.js)                          *)
(*   - CelestialManager, Sun, Moon (src/modules/celestials)                *)
(*   - grabbing, cast-power charging and distanceToLineSegment of          *)
(*     src/script.js                                                       *)
(*                                                                         *)
(* Lengths are fixed-point integers: FishManager and script.js positions   *)
(* are in thousandths of a scene unit, FishingRod positions in tenths.     *)
(* Angles and rotations are in ten-thousandths of a radian, with sines and *)
(* cosines in ten-thousandths; struggle phases are counted in quarters of  *)
(* a turn (pi/2) and use a per-mille table; struggleIntensity is in        *)
(* hundred-thousandths.                                                    *)
(***************************************************************************)
EXTENDS Integers, Sequences, FiniteSets, TLC

VARIABLES
    \* ---- FishManager ----
    fishes,        \* this.fishes: sequence of fish ids
    fish,          \* every fish object ever created: id -> position + userData
    loadState,     \* per model file: "idle" | "pending" | "loaded" | "failed"
    initState,     \* the promise returned by init(): "notcalled" | "pending" | "resolved"
    anims,         \* throw animations scheduled with requestAnimationFrame, one per throwFish call
    flops,         \* flop intervals started by onFishLanded (setInterval), one per call
    calls,         \* number of FishManager method calls so far
    lastCall,      \* the last FishManager call and what it returned
    thrown,        \* history: fish that throwFish was called on
    removed,       \* history: fish that removeFish took out of this.fishes
    \* ---- FishingRod ----
    rod,           \* the FishingRod object's fields
    ctrlPos,       \* world position of each VR controller
    rodRet,        \* the last FishingRod call and what it returned
    \* ---- SceneManager ----
    managers,      \* sequence of constructed SceneManagers, each holding its scene id
    \* ---- script.js ----
    script,        \* the globals of script.js that drive grabbing and cast charging
    lineCall,      \* the last distanceToLineSegment call and what it returned
    \* ---- CelestialManager ----
    celestial      \* sun and moon: sphere positions and light intensities

fishVars   == <<fishes, fish, loadState, initState, anims, flops, calls,
                lastCall, thrown, removed>>
rodVars    == <<rod, ctrlPos, rodRet>>
sceneVars  == <<managers>>
scriptVars == <<script>>
lineVars   == <<lineCall>>
skyVars    == <<celestial>>
vars       == <<fishVars, rodVars, sceneVars, scriptVars, lineVars, skyVars>>

\* JavaScript null / undefined where a fish, a position or a controller is expected
NoFish == 0
NoPos  == <<>>
NoCtrl == "none"

\* ------------------------------------------------------------------------
\* Bounds of the model
\* ------------------------------------------------------------------------
RegularCount == 1      \* fish created per regular model load (FISH_CONFIG.REGULAR.count)
RedCount     == 1      \* fish created per red model load (FISH_CONFIG.RED.count)
MaxCalls     == 3      \* FishManager method calls explored after loading
MaxAnims     == 2      \* throw animations in flight at once, and flop intervals running at once
MaxManagers  == 2      \* SceneManager constructions explored
MaxPendingInits == 1   \* FishingRod.init() calls awaiting their textures at once
MaxHold      == 30     \* longest squeeze explored, tenths of a second
MaxFrames    == 2      \* render() frames explored
MaxTime      == 320    \* latest time handed to CelestialManager.update, seconds

\* ------------------------------------------------------------------------
\* FISH_CONFIG (thousandths of a unit)
\* ------------------------------------------------------------------------
TYPES == {"REGULAR", "RED"}

RegularMinDepth == -1200
RegularMaxDepth == -500
RedMinDepth     == -1000
RedMaxDepth     == -400
WaterLevel      == -300
\* speed: { min, max }, ten-thousandths of a radian per update
RegularMinSpeed == 50
RegularMaxSpeed == 150
RedMinSpeed     == 70
RedMaxSpeed     == 170

FISH_CONFIG ==
    [REGULAR |-> [count |-> RegularCount, minDepth |-> RegularMinDepth,
                  maxDepth |-> RegularMaxDepth,
                  speedMin |-> RegularMinSpeed, speedMax |-> RegularMaxSpeed,
                  isRed |-> FALSE],
     RED     |-> [count |-> RedCount, minDepth |-> RedMinDepth,
                  maxDepth |-> RedMaxDepth,
                  speedMin |-> RedMinSpeed, speedMax |-> RedMaxSpeed,
                  isRed |-> TRUE]]

\* ------------------------------------------------------------------------
\* Arithmetic helpers
\* ------------------------------------------------------------------------
Min(a, b) == IF a < b THEN a ELSE b
Max(a, b) == IF a > b THEN a ELSE b

\* Math.cos / Math.sin of k eighths of a turn, in thousandths
Cos1000(k) == CASE k % 8 = 0 -> 1000 [] k % 8 = 1 -> 707 [] k % 8 = 2 -> 0
                [] k % 8 = 3 -> -707 [] k % 8 = 4 -> -1000 [] k % 8 = 5 -> -707
                [] k % 8 = 6 -> 0 [] OTHER -> 707
Sin1000(k) == Cos1000(k + 6)

\* thousandths * length -> length
Scale(m, len) == (m * len) \div 1000

\* squared Vector3.distanceTo
Dist2(p, q) == (p[1] - q[1]) * (p[1] - q[1]) + (p[2] - q[2]) * (p[2] - q[2])
               + (p[3] - q[3]) * (p[3] - q[3])

Range(s) == {s[i] : i \in 1..Len(s)}

Abs(a) == IF a < 0 THEN -a ELSE a

\* Math.PI and its multiples, ten-thousandths of a radian
PiU       == 31416
HalfPiU   == 15708
QuarterPiU == 7854
TwoPiU    == 62832

\* Math.sin on [0, pi/2]: x - x^3/3! + x^5/5! - x^7/7! + x^9/9!
SinQuarter(x) ==
    LET x2 == (x * x) \div 10000
        t3 == ((x * x2) \div 10000) \div 6
        t5 == ((t3 * x2) \div 10000) \div 20
        t7 == ((t5 * x2) \div 10000) \div 42
        t9 == ((t7 * x2) \div 10000) \div 72
    IN Max(0, Min(10000, x - t3 + t5 - t7 + t9))

\* Math.sin
SinU(x) ==
    LET r == x % TwoPiU
        h == IF r < PiU THEN r ELSE r - PiU
        v == IF h <= HalfPiU THEN SinQuarter(h) ELSE SinQuarter(PiU - h)
    IN IF r < PiU THEN v ELSE -v

\* Math.cos
CosU(x) == SinU(x + HalfPiU)

\* ten-thousandths * length -> length
ScaleU(m, len) == (m * len) \div 10000

\* a / b rounded to the nearest integer (b > 0)
RoundDiv(a, b) == (a + b \div 2) \div b

\* Math.atan on [0, tan(pi/8)], argument and result in hundred-thousandths:
\* x - x^3/3 + x^5/5 - x^7/7 + x^9/9 - x^11/11
AtanSmall(x) ==
    LET x2  == RoundDiv(x * x, 100000)
        t3  == RoundDiv(x * x2, 100000)
        t5  == RoundDiv(t3 * x2, 100000)
        t7  == RoundDiv(t5 * x2, 100000)
        t9  == RoundDiv(t7 * x2, 100000)
        t11 == RoundDiv(t9 * x2, 100000)
    IN x - RoundDiv(t3, 3) + RoundDiv(t5, 5) - RoundDiv(t7, 7)
         + RoundDiv(t9, 9) - RoundDiv(t11, 11)

\* Math.atan(a / b) for 0 <= a <= b, b > 0, in hundred-thousandths of a
\* radian; above tan(pi/8) it is pi/4 - atan((b - a) / (b + a))
AtanRatio(a, b) ==
    IF 100000 * a <= 41421 * b THEN AtanSmall(RoundDiv(a * 100000, b))
    ELSE 78540 - AtanSmall(RoundDiv((b - a) * 100000, a + b))

\* Math.atan2(y, x), ten-thousandths of a radian; Math.atan2(0, 0) is 0
Atan2U(y, x) ==
    IF y = 0 /\ x = 0 THEN 0
    ELSE LET a == Abs(y)
             b == Abs(x)
             q == IF a <= b THEN AtanRatio(a, b) ELSE 157080 - AtanRatio(b, a)
             h == RoundDiv(IF x >= 0 THEN q ELSE 314159 - q, 10)
         IN IF y >= 0 THEN h ELSE -h

\* ------------------------------------------------------------------------
\* Inputs explored (Math.random() draws, caller arguments, frame timing)
\* ------------------------------------------------------------------------
\* Math.random() draws of setupFishInstances for one fish: x of the spawn
\* point (z is drawn as 0), depth draw in thousandths of [min, max),
\* rotation.y and starting angle in [0, 2 pi), speed draw in thousandths of
\* [min, max), verticalOffset in [0, 0.05), radius in [0.8, 2.3)
SpawnDraws ==
    {[cx |-> -2000, y |-> 0,   rot |-> 0, speed |-> 999, angle |-> 15708,
      voff |-> 40, radius |-> 2000],
     [cx |-> 2000,  y |-> 999, rot |-> 31416, speed |-> 0, angle |-> 0,
      voff |-> 40, radius |-> 800]}
\* maxFlops = 3 + Math.floor(Math.random() * 3) of onFishLanded
MaxFlopsDraws == {3, 5}
\* struggleIntensity = 0.5 + Math.random() * 0.5, hundred-thousandths
IntensityDraws == {50000, 90000}
\* linePosition arguments of update / checkForNearbyFish
LinePositions == {<<-2000, -300, 0>>, <<2000, -300, 0>>}
\* targetPosition arguments of throwFish (FishingRod.release() results)
LandingPositions == {<<0, 0, 5000>>}
\* performance.now() advance between two struggle updates, quarter turns of phase
PhaseSteps    == {0, 1}

\* ------------------------------------------------------------------------
\* FishManager.setupFishInstances (one fish)
\* ------------------------------------------------------------------------
\* y = Math.random() * (maxDepth - minDepth) + minDepth
SpawnDepth(config, draw) ==
    Scale(draw, config.maxDepth - config.minDepth) + config.minDepth

\* speed = Math.random() * (config.speed.max - config.speed.min) + min
SpawnSpeed(config, draw) ==
    Scale(draw, config.speedMax - config.speedMin) + config.speedMin

NewFish(config, d) ==
    LET y == SpawnDepth(config, d.y) IN
    [pos |-> <<d.cx, y, 0>>,
     speed |-> SpawnSpeed(config, d.speed), radius |-> d.radius,
     centerX |-> d.cx, centerZ |-> 0,
     baseY |-> y, angle |-> d.angle, verticalOffset |-> d.voff,
     isRed |-> config.isRed,
     isCaught |-> FALSE, isBeingReeled |-> FALSE,
     isOutOfWater |-> FALSE, isOnGround |-> FALSE,
     strugglePhase |-> 0, struggleIntensity |-> 0,
     rotY |-> d.rot,   \* rotation.y
     marker |-> FALSE]

\* ------------------------------------------------------------------------
\* FishManager.update: the swimming branch
\* ------------------------------------------------------------------------
\* update without the depth clamp
ConstrainY_Unclamped(isRed, newY) == newY

\* Math.max(minDepth, Math.min(newY, maxDepth)) for the fish's type
ConstrainY(isRed, newY) ==
    Max(IF isRed THEN RedMinDepth ELSE RegularMinDepth,
        Min(newY, IF isRed THEN RedMaxDepth ELSE RegularMaxDepth))

\* targetRotation of update: Math.atan2(newX - fish.position.x,
\* newZ - fish.position.z), read after fish.position.set(newX, y, newZ)
TargetRotation(position, newX, newZ) ==
    Atan2U(newX - position[1], newZ - position[3])

Swim(f) ==
    LET angle == f.angle + f.speed
        newX  == f.centerX + ScaleU(CosU(angle), f.radius)
        newZ  == f.centerZ + ScaleU(SinU(angle), f.radius)
        newY  == f.baseY + ScaleU(SinU(2 * angle), f.verticalOffset)
        position == <<newX, ConstrainY(f.isRed, newY), newZ>>
    IN [f EXCEPT !.angle = angle,
                 !.pos = position,
                 \* fish.rotation.y = targetRotation + Math.PI / 2
                 !.rotY = TargetRotation(position, newX, newZ) + HalfPiU]

\* ------------------------------------------------------------------------
\* FishManager.updateFishPosition
\* ------------------------------------------------------------------------
\* Vector3.lerp with lerpFactor = 0.1 * (1 - struggleIntensity * 0.5)
Lerp(a, b, intensity) ==
    a + RoundDiv((b - a) * (200000 - intensity), 2000000)

\* one coordinate of struggleOffset: wave (a sine or cosine, thousandths)
\* * amplitude * struggleIntensity
StruggleOffset(wave, amplitude, intensity) ==
    RoundDiv(Scale(wave, amplitude) * intensity, 100000)

UpdateFishPosition(f, target, dphase) ==
    IF ~f.isBeingReeled THEN f
    ELSE
      LET phase == (f.strugglePhase + dphase) % 4
          si    == f.struggleIntensity
          \* sin(5p)*0.2, sin(3p)*0.1, cos(4p)*0.2, each times the intensity
          ox    == StruggleOffset(Sin1000(2 * 5 * phase), 200, si)
          oy    == StruggleOffset(Sin1000(2 * 3 * phase), 100, si)
          oz    == StruggleOffset(Cos1000(2 * 4 * phase), 200, si)
          tws   == <<target[1] + ox, target[2] + oy, target[3] + oz>>
          position == <<Lerp(f.pos[1], tws[1], si),
                        Lerp(f.pos[2], tws[2], si),
                        Lerp(f.pos[3], tws[3], si)>>
      IN [f EXCEPT !.strugglePhase = phase,
                   !.pos = position,
                   \* direction = targetWithStruggle - position, used when
                   \* longer than 0.01
                   !.rotY = IF Dist2(tws, position) > 10 * 10
                            THEN Atan2U(tws[1] - position[1],
                                        tws[3] - position[3])
                            ELSE @,
                   \* struggleIntensity *= 0.995
                   !.struggleIntensity = RoundDiv(si * 995, 1000)]

\* one iteration of the forEach of update(time, linePosition)
UpdateOne(f, linePosition, dphase) ==
    IF f.isOutOfWater THEN f
    ELSE IF ~f.isCaught /\ ~f.isOnGround THEN Swim(f)
    ELSE IF f.isBeingReeled /\ linePosition # NoPos
         THEN UpdateFishPosition(f, linePosition, dphase)
    ELSE f

\* ------------------------------------------------------------------------
\* FishManager queries
\* ------------------------------------------------------------------------
getFishes == SelectSeq(fishes, LAMBDA id : ~fish[id].isOutOfWater)

getAllFishes == fishes

\* the scan of checkForNearbyFish: first fish at the least distance among
\* those whose isOnGround is not set
RECURSIVE NearestFrom(_, _, _, _)
NearestFrom(i, linePosition, best, bestD) ==
    IF i > Len(fishes) THEN best
    ELSE LET id == fishes[i]
             d  == Dist2(fish[id].pos, linePosition)
         IN IF ~fish[id].isOnGround /\ (best = NoFish \/ d < bestD)
            THEN NearestFrom(i + 1, linePosition, id, d)
            ELSE NearestFrom(i + 1, linePosition, best, bestD)

NearestFish(linePosition) == NearestFrom(1, linePosition, NoFish, 0)

\* ------------------------------------------------------------------------
\* Initial state: the objects right after their constructors
\* ------------------------------------------------------------------------
FishInit ==
    /\ fishes = <<>>
    /\ fish = <<>>
    /\ loadState = [t \in TYPES |-> "idle"]
    /\ initState = "notcalled"
    /\ anims = {}
    /\ flops = {}
    /\ calls = 0
    /\ lastCall = [op |-> "constructor", ret |-> NoFish]
    /\ thrown = {}
    /\ removed = {}

\* ------------------------------------------------------------------------
\* FishManager.init / loadFishType / setupFishInstances
\* ------------------------------------------------------------------------
\* init(): both loadFishType promises are created, Promise.all awaits them
InitCall ==
    /\ initState = "notcalled"
    /\ initState' = "pending"
    /\ loadState' = [t \in TYPES |-> "pending"]
    /\ lastCall' = [op |-> "init", ret |-> NoFish]
    /\ UNCHANGED <<fishes, fish, anims, flops, calls, thrown, removed>>

\* Promise.all resolves once every load resolved; the await's catch turns
\* the first rejection into a normal return of init()
InitSettles(ls) ==
    \/ \E t \in TYPES : ls[t] = "failed"
    \/ \A t \in TYPES : ls[t] = "loaded"

\* the loader's onLoad callback: setupFishInstances(fish, config); resolve()
LoadSuccess(t) ==
    /\ loadState[t] = "pending"
    /\ \E draws \in [1..FISH_CONFIG[t].count -> SpawnDraws] :
         LET made == [i \in 1..FISH_CONFIG[t].count |-> NewFish(FISH_CONFIG[t], draws[i])]
             ids  == [i \in 1..FISH_CONFIG[t].count |-> Len(fish) + i]
         IN /\ fish' = fish \o made
            /\ fishes' = fishes \o ids
    /\ loadState' = [loadState EXCEPT ![t] = "loaded"]
    /\ initState' = IF initState = "pending" /\ InitSettles(loadState')
                    THEN "resolved" ELSE initState
    /\ lastCall' = [op |-> "onLoad", ret |-> NoFish]
    /\ UNCHANGED <<anims, flops, calls, thrown, removed>>

\* the loader's onError callback: reject(error)
LoadError(t) ==
    /\ loadState[t] = "pending"
    /\ loadState' = [loadState EXCEPT ![t] = "failed"]
    /\ initState' = IF initState = "pending" /\ InitSettles(loadState')
                    THEN "resolved" ELSE initState
    /\ lastCall' = [op |-> "onError", ret |-> NoFish]
    /\ UNCHANGED <<fishes, fish, anims, flops, calls, thrown, removed>>

\* ------------------------------------------------------------------------
\* FishManager.update(time, linePosition)
\* ------------------------------------------------------------------------
Update(linePosition, dphase) ==
    /\ calls < MaxCalls
    /\ calls' = calls + 1
    /\ fish' = [id \in DOMAIN fish |->
                  IF id \in Range(fishes)
                  THEN UpdateOne(fish[id], linePosition, dphase)
                  ELSE fish[id]]
    /\ lastCall' = [op |-> "update", ret |-> NoFish]
    /\ UNCHANGED <<fishes, loadState, initState, anims, flops, thrown, removed>>

\* ------------------------------------------------------------------------
\* FishManager.checkForNearbyFish(linePosition)
\* ------------------------------------------------------------------------
\* the body of "if (nearestFish && !nearestFish.userData.isCaught)"
MarkCaught(f, linePosition, intensity) ==
    UpdateFishPosition([f EXCEPT !.isCaught = TRUE, !.isBeingReeled = TRUE,
                                 !.strugglePhase = 0,
                                 !.struggleIntensity = intensity],
                       linePosition, 0)

CheckForNearbyFish(linePosition) ==
    /\ calls < MaxCalls
    /\ calls' = calls + 1
    /\ IF linePosition = NoPos
       THEN /\ lastCall' = [op |-> "checkForNearbyFish", ret |-> NoFish]
            /\ fish' = fish
       ELSE LET nearestFish == NearestFish(linePosition) IN
            /\ lastCall' = [op |-> "checkForNearbyFish", ret |-> nearestFish]
            /\ IF nearestFish # NoFish /\ ~fish[nearestFish].isCaught
               THEN \E intensity \in IntensityDraws :
                      fish' = [fish EXCEPT ![nearestFish] =
                                 MarkCaught(@, linePosition, intensity)]
               ELSE fish' = fish
    /\ UNCHANGED <<fishes, loadState, initState, anims, flops, thrown, removed>>

\* ------------------------------------------------------------------------
\* FishManager.throwFish(fish, targetPosition) and its animation frames
\* ------------------------------------------------------------------------
\* throwFish without "fish.userData.isOutOfWater = true"
MarkThrown_StillInWater(f) ==
    [f EXCEPT !.isCaught = FALSE, !.isBeingReeled = FALSE]

\* the flag assignments of throwFish
MarkThrown(f) ==
    [f EXCEPT !.isCaught = FALSE, !.isBeingReeled = FALSE,
              !.isOutOfWater = TRUE]

\* QuadraticBezierCurve3(start, mid, end).getPoint(1/2), mid = lerp(start,
\* end, 0.5) raised by 3
CurveHalf(start, end) ==
    <<(start[1] + end[1]) \div 2, (start[2] + end[2]) \div 2 + 1500,
      (start[3] + end[3]) \div 2>>

ThrowFish(id, targetPosition) ==
    /\ calls < MaxCalls
    /\ calls' = calls + 1
    /\ IF id = NoFish
       THEN UNCHANGED <<fish, anims, thrown>>
       ELSE /\ thrown' = thrown \cup {id}
            /\ fish' = [fish EXCEPT ![id] = MarkThrown(@)]
            /\ IF targetPosition = NoPos
               \* targetPosition.clone() throws: no animation starts
               THEN anims' = anims
               \* every call starts an animation of its own (n tells the
               \* closures of two calls apart); its first animate() runs
               \* at progress 0: position = start
               ELSE LET a == [f |-> id, start |-> fish[id].pos,
                              end |-> targetPosition, n |-> calls]
                    IN /\ Cardinality(anims) < MaxAnims
                       /\ anims' = anims \cup {a}
    /\ lastCall' = [op |-> "throwFish", ret |-> NoFish]
    /\ UNCHANGED <<fishes, loadState, initState, flops, removed>>

\* a requestAnimationFrame callback of the throw: in flight (progress < 1,
\* taken at 1/2) or landed (progress = 1, marker created)
AnimateThrow(a, landed) ==
    /\ a \in anims
    /\ IF landed
       \* fish.rotation.set(Math.PI / 2, 0, random): rotation.y = 0
       THEN /\ fish' = [fish EXCEPT ![a.f].pos = a.end, ![a.f].rotY = 0,
                                    ![a.f].marker = TRUE]
            /\ anims' = anims \ {a}
       ELSE /\ fish' = [fish EXCEPT ![a.f].pos = CurveHalf(a.start, a.end)]
            /\ anims' = anims
    /\ lastCall' = [op |-> "animate", ret |-> NoFish]
    /\ UNCHANGED <<fishes, loadState, initState, flops, calls, thrown,
                   removed>>

\* ------------------------------------------------------------------------
\* FishManager.onFishLanded(fish) and the ticks of its flop interval
\* ------------------------------------------------------------------------
\* rotation.x and rotation.z, set at random, are not kept
OnFishLanded(id, maxFlops) ==
    /\ calls < MaxCalls
    /\ calls' = calls + 1
    /\ Cardinality(flops) < MaxAnims
    /\ fish' = [fish EXCEPT ![id].isOnGround = TRUE]
    \* every call starts an interval of its own (n tells the intervals of
    \* two calls apart)
    /\ flops' = flops \cup {[f |-> id, flopCount |-> 0, maxFlops |-> maxFlops,
                              n |-> calls]}
    /\ lastCall' = [op |-> "onFishLanded", ret |-> NoFish]
    /\ UNCHANGED <<fishes, loadState, initState, anims, thrown, removed>>

\* one setInterval callback: flopIntensity = 1 - flopCount / maxFlops; the
\* setTimeout it arms throws a ReferenceError (landingPosition is not
\* defined) and changes nothing
FlopTick(fl) ==
    /\ fl \in flops
    /\ IF fl.flopCount >= fl.maxFlops
       THEN /\ flops' = flops \ {fl}
            /\ fish' = fish
       ELSE LET left == fl.maxFlops - fl.flopCount IN
            /\ fish' = [fish EXCEPT
                  ![fl.f].rotY = @ + (QuarterPiU * left) \div fl.maxFlops,
                  ![fl.f].pos = <<@[1], @[2] + (100 * left) \div fl.maxFlops,
                                  @[3]>>]
            /\ flops' = (flops \ {fl}) \cup
                           {[fl EXCEPT !.flopCount = @ + 1]}
    /\ lastCall' = [op |-> "flop", ret |-> NoFish]
    /\ UNCHANGED <<fishes, loadState, initState, anims, calls, thrown,
                   removed>>

\* ------------------------------------------------------------------------
\* FishManager.removeFish(fish)
\* ------------------------------------------------------------------------
RemoveFish(id) ==
    /\ calls < MaxCalls
    /\ calls' = calls + 1
    /\ IF id \in Range(fishes)
       THEN /\ fishes' = SelectSeq(fishes, LAMBDA x : x # id)
            /\ removed' = removed \cup {id}
       ELSE UNCHANGED <<fishes, removed>>
    /\ lastCall' = [op |-> "removeFish", ret |-> NoFish]
    /\ UNCHANGED <<fish, loadState, initState, anims, flops, thrown>>

FishIds == DOMAIN fish

\* ------------------------------------------------------------------------
\* FishingRod (positions in tenths of a unit, cast power in tenths)
\* ------------------------------------------------------------------------
GRAB_RADIUS    == 8
CAST_POWER_MAX == 50
LINE_WHITE     == 16777215    \* 0xffffff
LINE_RED       == 16711680    \* 0xff0000
OPACITY_IDLE   == 6           \* 0.6, in tenths
OPACITY_BITE   == 10          \* 1.0, in tenths

Controllers == {"controllerR", "controllerL"}
\* positions a tracked controller can be at
CtrlPositions == {<<0, 10, -5>>, <<8, 10, -5>>, <<9, 10, -5>>, <<0, 11, 13>>}
\* power arguments of startCasting
Powers == {-10, 0, 25, 50, 70}
\* world direction of the rod at release, and the draw of 5 + random * 3
Directions == {<<0, 0, 1>>, <<1, 0, 0>>, <<0, 1, 0>>, <<0, -1, 0>>}
ThrowLengths == {50, 79}
\* scene.camera of SceneManager: position (0, 1.6, 3), looking down -z
CameraPos == <<0, 16, 30>>
CameraDir == <<0, 0, -1>>

Add3(p, q) == <<p[1] + q[1], p[2] + q[2], p[3] + q[3]>>
Mul3(p, k) == <<p[1] * k, p[2] * k, p[3] * k>>

\* rod.getWorldPosition: the rod's position under its parent (controllers
\* are taken unrotated)
RodWorldPos(r, cp) ==
    IF r.parent = "scene" THEN r.pos ELSE Add3(cp[r.parent], r.pos)

\* scene.attach(rod): re-parent to the scene keeping the world position
SceneAttach(r, cp) ==
    [r EXCEPT !.parent = "scene", !.pos = RodWorldPos(r, cp)]

\* the constructor: this.rod, this.line and this.grabSphere are null (ready,
\* hasLine, hasGrabSphere are FALSE; the line and position fields mean
\* nothing until then)
RodInit ==
    /\ rod = [ready |-> FALSE, hasLine |-> FALSE, hasGrabSphere |-> FALSE,
              pendingInits |-> 0,
              isGrabbed |-> FALSE, isCasting |-> FALSE,
              castPower |-> 0, hasFishBite |-> FALSE,
              lineColor |-> LINE_WHITE, lineOpacity |-> OPACITY_IDLE,
              parent |-> "scene", pos |-> <<0, 10, -5>>,
              grabSphereParent |-> NoCtrl]
    /\ ctrlPos = [c \in Controllers |-> <<0, 11, 13>>]
    /\ rodRet = [op |-> "constructor", ret |-> "undefined", pos |-> NoPos]

\* init() up to "await this.loadTextures()"
RodInitCall ==
    /\ rod.pendingInits < MaxPendingInits
    /\ rod' = [rod EXCEPT !.pendingInits = @ + 1]
    /\ rodRet' = [op |-> "init", ret |-> "promise", pos |-> NoPos]
    /\ UNCHANGED ctrlPos

\* what init() builds after the await: a new rod in the scene at (0, 1, -0.5)
\* with a new white line and a new grab sphere; when a step before
\* createLine throws, createBasicRod() builds the rod alone and the line and
\* grab sphere fields stay as they were.  The flags are not touched.
Built(r, ok) ==
    LET r1 == [r EXCEPT !.ready = TRUE, !.parent = "scene",
                        !.pos = <<0, 10, -5>>]
    IN IF ok
       THEN [r1 EXCEPT !.hasLine = TRUE, !.lineColor = LINE_WHITE,
                       !.lineOpacity = OPACITY_IDLE,
                       !.hasGrabSphere = TRUE, !.grabSphereParent = NoCtrl]
       ELSE r1

\* init() resumed after the await
RodInitResume(ok) ==
    /\ rod.pendingInits > 0
    /\ rod' = [Built(rod, ok) EXCEPT !.pendingInits = @ - 1]
    /\ rodRet' = [op |-> "initResolved", ret |-> "rod", pos |-> NoPos]
    /\ UNCHANGED ctrlPos

\* distance <= GRAB_RADIUS
WithinGrabRadius(p, q) == Dist2(p, q) <= GRAB_RADIUS * GRAB_RADIUS

\* grab(controller, controllerPosition); while this.rod is null the first
\* use of this.rod throws a TypeError
GrabResult(r, cp, controller, controllerPosition) ==
    IF controller # NoCtrl /\ controllerPosition # NoPos
    THEN \* VR mode
         LET r1 == IF r.hasGrabSphere /\ r.grabSphereParent = NoCtrl
                   THEN [r EXCEPT !.grabSphereParent = controller] ELSE r
         IN IF ~r1.ready THEN [rod |-> r1, ret |-> "throws"]
            ELSE IF WithinGrabRadius(controllerPosition, RodWorldPos(r1, cp))
            THEN [rod |-> [r1 EXCEPT !.isGrabbed = TRUE, !.parent = controller,
                                     !.pos = <<0, 0, -3>>],
                  ret |-> "true"]
            ELSE [rod |-> r1, ret |-> "false"]
    ELSE \* keyboard / mouse mode
         LET r1 == [r EXCEPT !.isGrabbed = TRUE]
             r2 == IF r1.parent # "scene" THEN SceneAttach(r1, cp) ELSE r1
             p  == Add3(CameraPos, Mul3(CameraDir, 20))
         IN IF ~r1.ready THEN [rod |-> r1, ret |-> "throws"]
            ELSE [rod |-> [r2 EXCEPT !.pos = <<p[1], p[2] - 5, p[3] - 5>>],
                  ret |-> "true"]

Grab(controller, controllerPosition) ==
    /\ LET res == GrabResult(rod, ctrlPos, controller, controllerPosition) IN
       /\ rod' = res.rod
       /\ rodRet' = [op |-> "grab", ret |-> res.ret, pos |-> NoPos]
    /\ UNCHANGED ctrlPos

\* resetFishBite that clears the flag but leaves the line as it is
ResetBite_KeepsColor(r) == [r EXCEPT !.hasFishBite = FALSE]

\* resetFishBite()
ResetBite(r) ==
    IF r.hasLine
    THEN [r EXCEPT !.hasFishBite = FALSE, !.lineColor = LINE_WHITE,
                   !.lineOpacity = OPACITY_IDLE]
    ELSE [r EXCEPT !.hasFishBite = FALSE]

\* showFishBite()
ShowBite(r) ==
    IF r.hasLine
    THEN [r EXCEPT !.hasFishBite = TRUE, !.lineColor = LINE_RED,
                   !.lineOpacity = OPACITY_BITE]
    ELSE [r EXCEPT !.hasFishBite = TRUE]

\* throwDirection.y = 0; throwDirection.normalize() (axis directions only;
\* a zero vector stays zero)
FlatDirection(dir) == <<dir[1], 0, dir[3]>>

\* landingPosition of release(): rod position plus the flattened direction
\* times the throw length, then landingPosition.y = 0
LandingPosition(rodPosition, dir, len) ==
    LET p == Add3(rodPosition, Mul3(FlatDirection(dir), len))
    IN <<p[1], 0, p[3]>>

\* release(); while this.rod is null it throws after clearing isGrabbed
ReleaseResult(r, cp, dir, len) ==
    IF ~r.isGrabbed
    THEN [rod |-> r, ret |-> "undefined", pos |-> NoPos]
    ELSE IF ~r.ready
    THEN [rod |-> [r EXCEPT !.isGrabbed = FALSE], ret |-> "throws",
          pos |-> NoPos]
    ELSE LET r1 == [r EXCEPT !.isGrabbed = FALSE]
             landing == LandingPosition(RodWorldPos(r1, cp), dir, len)
             r2 == IF r1.parent # "scene" THEN SceneAttach(r1, cp) ELSE r1
         IN [rod |-> ResetBite(r2), ret |-> "position", pos |-> landing]

Release(dir, len) ==
    /\ LET res == ReleaseResult(rod, ctrlPos, dir, len) IN
       /\ rod' = res.rod
       /\ rodRet' = [op |-> "release", ret |-> res.ret, pos |-> res.pos]
    /\ UNCHANGED ctrlPos

\* startCasting without the "if (!this.isGrabbed) return false" guard
StartCastingResult_NoGrabCheck(r, power) ==
    [rod |-> [r EXCEPT !.isCasting = TRUE,
                       !.castPower = Min(power, CAST_POWER_MAX)],
     ret |-> "true"]

\* startCasting(power)
StartCastingResult(r, power) ==
    IF ~r.isGrabbed
    THEN [rod |-> r, ret |-> "false"]
    ELSE [rod |-> [r EXCEPT !.isCasting = TRUE,
                            !.castPower = Min(power, CAST_POWER_MAX)],
          ret |-> "true"]

StartCasting(power) ==
    /\ LET res == StartCastingResult(rod, power) IN
       /\ rod' = res.rod
       /\ rodRet' = [op |-> "startCasting", ret |-> res.ret, pos |-> NoPos]
    /\ UNCHANGED ctrlPos

\* endCasting()
EndCastingResult(r) ==
    IF ~r.isCasting THEN r
    ELSE [r EXCEPT !.isCasting = FALSE, !.castPower = 0]

EndCasting ==
    /\ rod' = EndCastingResult(rod)
    /\ rodRet' = [op |-> "endCasting", ret |-> "undefined", pos |-> NoPos]
    /\ UNCHANGED ctrlPos

ShowFishBite ==
    /\ rod' = ShowBite(rod)
    /\ rodRet' = [op |-> "showFishBite", ret |-> "undefined", pos |-> NoPos]
    /\ UNCHANGED ctrlPos

ResetFishBite ==
    /\ rod' = ResetBite(rod)
    /\ rodRet' = [op |-> "resetFishBite", ret |-> "undefined", pos |-> NoPos]
    /\ UNCHANGED ctrlPos

\* the VR runtime moves a tracked controller
MoveController(c, p) ==
    /\ ctrlPos[c] # p
    /\ ctrlPos' = [ctrlPos EXCEPT ![c] = p]
    /\ UNCHANGED <<rod, rodRet>>

\* ------------------------------------------------------------------------
\* SceneManager
\* ------------------------------------------------------------------------
SceneInit == managers = <<>>

\* new SceneManager(): this.scene = new THREE.Scene(), a fresh object
NewScene(ms) == Len(ms) + 1

NewSceneManager ==
    /\ Len(managers) < MaxManagers
    /\ managers' = Append(managers, [scene |-> NewScene(managers)])

\* the scenes held by the SceneManagers constructed so far
Scenes == {managers[i].scene : i \in 1..Len(managers)}

\* ------------------------------------------------------------------------
\* script.js: grabbing, the render loop, cast charging and the catch (time
\* in tenths of a second, cast power in tenths, positions in thousandths
\* of a unit)
\* ------------------------------------------------------------------------
SCRIPT_CAST_POWER_MAX == 50
controllerActionRadius == 100
rodMovementSpeed == 100        \* 0.1, in thousandths
\* time between two animation frames of the charging loop
FrameTimes == {15, 30}
\* world positions the right controller can be tracked at: its initial
\* one, exactly controllerActionRadius from the rod as created, and just
\* beyond that
ControllerRPositions == {<<0, 0, 0>>, <<0, 1000, -400>>, <<0, 1000, -399>>}
\* the fish of the lake that come near the line
ScriptFishes == {1, 2}
\* movement keys pressed in the runs explored
MoveKeys == {"KeyW"}

\* what render() adds to fishingRod.position for a movement key held down
\* (moveSpeed = 0.05)
KeyStep(k) ==
    CASE k = "KeyW" -> <<0, 0, -50>>
      [] k = "KeyS" -> <<0, 0, 50>>
      [] k = "KeyA" -> <<-50, 0, 0>>
      [] k = "KeyD" -> <<50, 0, 0>>
      [] k = "KeyQ" -> <<0, 50, 0>>
      [] OTHER      -> <<0, -50, 0>>

\* the module body: the globals, with the document keydown / keyup
\* listeners registered; init() has not run, so fishingRod and controllerR
\* are undefined and objects is empty
ScriptInit ==
    script = [initialized |-> FALSE,
              isRodGrabbed |-> FALSE, isCasting |-> FALSE, isReeling |-> FALSE,
              isCharging |-> FALSE, isSqueezed |-> FALSE, canCast |-> TRUE,
              castPower |-> 0, elapsed |-> 0, timer |-> "none",
              kbGrabbing |-> FALSE, kbSqueezed |-> FALSE,
              checkGrabbingR |-> FALSE,
              rodParent |-> "none", rodPos |-> NoPos,
              controllerRPos |-> <<0, 0, 0>>,
              keysDown |-> {},       \* movement flags of keyboardState
              caughtFish |-> NoFish,
              fishBiteTimer |-> NoFish,  \* fish the pending bite timeout is for
              catchAnimation |-> FALSE,  \* animateCatch is scheduled
              frames |-> 0]

\* object.getWorldPosition for the fishing rod (the controller is taken
\* unrotated)
ObjectWorldPos(g) ==
    IF g.rodParent = "controllerR" THEN Add3(g.controllerRPos, g.rodPos)
    ELSE g.rodPos

\* distance <= controllerActionRadius
WithinActionRadius(g) ==
    Dist2(g.controllerRPos, ObjectWorldPos(g))
        <= controllerActionRadius * controllerActionRadius

\* SelectEventGrab(event)
SelectEventGrab(g, eventType) ==
    LET g1 == [g EXCEPT !.checkGrabbingR = TRUE, !.isRodGrabbed = TRUE] IN
    IF eventType = "selectstart"
    THEN \* VR controller
         IF WithinActionRadius(g1)
         THEN [g1 EXCEPT !.rodParent = "controllerR", !.rodPos = <<0, 0, -300>>]
         ELSE g1
    ELSE \* keyboard: if (fishingRod)
         IF g1.initialized THEN [g1 EXCEPT !.rodPos = <<0, 1500, -1000>>]
         ELSE g1

\* SelectEventGrabEnd(event)
SelectEventGrabEnd(g) ==
    LET g1 == [g EXCEPT !.checkGrabbingR = FALSE, !.isRodGrabbed = FALSE] IN
    IF g1.rodParent = "controllerR"
    THEN \* scene.attach(object)
         [g1 EXCEPT !.rodParent = "scene", !.rodPos = ObjectWorldPos(g1)]
    ELSE g1

\* CheckObjects(): object.position.copy(controllerPos) when in reach
CheckObjects(g) ==
    IF WithinActionRadius(g) THEN [g EXCEPT !.rodPos = g.controllerRPos]
    ELSE g

\* Vector3.lerp(v, alpha) on one coordinate, alpha in thousandths
LerpTo(a, b, alpha) == a + ((b - a) * alpha) \div 1000

\* render(): fishingRod.position.lerp(controllerR.position, rodSpeed)
FollowController(g) ==
    [g EXCEPT !.rodPos = <<LerpTo(@[1], g.controllerRPos[1], rodMovementSpeed),
                           LerpTo(@[2], g.controllerRPos[2], rodMovementSpeed),
                           LerpTo(@[3], g.controllerRPos[3], rodMovementSpeed)>>]

\* render(): keyboard-based rod movement, one step per key held
RECURSIVE KeyboardMove(_, _)
KeyboardMove(p, keys) ==
    IF keys = {} THEN p
    ELSE LET k == CHOOSE x \in keys : TRUE
         IN KeyboardMove(Add3(p, KeyStep(k)), keys \ {k})

\* render(): one frame.  hooked is the fish the loop finds within 0.3 of
\* the line (NoFish when there is none)
RenderFrame(g, hooked) ==
    LET g1 == IF g.checkGrabbingR THEN CheckObjects(g) ELSE g
        g2 == IF g1.isCasting /\ g1.caughtFish = NoFish /\ hooked # NoFish
              THEN [g1 EXCEPT !.caughtFish = hooked] ELSE g1
        g3 == IF g2.isRodGrabbed THEN FollowController(g2) ELSE g2
    IN IF g3.kbGrabbing
       THEN [g3 EXCEPT !.rodPos = KeyboardMove(@, g3.keysDown)]
       ELSE g3

\* onSqueezeStart()
OnSqueezeStart(g) ==
    IF ~g.isRodGrabbed \/ g.isCasting \/ g.isReeling THEN g
    ELSE [g EXCEPT !.isSqueezed = TRUE, !.isCharging = TRUE,
                   !.castPower = 0, !.elapsed = 0]

\* castPower = Math.min(elapsedTime * 2, CAST_POWER_MAX)
ChargedPower(elapsed) == Min(elapsed * 2, SCRIPT_CAST_POWER_MAX)

\* onSqueezeEnd() gets past its guard before init() has created
\* fishingRod: fishingRod.getWorldPosition throws a TypeError
SqueezeEndThrows(g) == g.isCharging /\ g.isRodGrabbed /\ ~g.initialized

\* onSqueezeEnd(): the cast is made, startFishingLogic is due in 1000 ms;
\* when it throws, the flags are set and no timer is armed
OnSqueezeEnd(g) ==
    IF ~g.isCharging \/ ~g.isRodGrabbed THEN g
    ELSE LET g1 == [g EXCEPT !.isSqueezed = FALSE, !.isCharging = FALSE,
                             !.isCasting = TRUE, !.canCast = FALSE]
         IN IF SqueezeEndThrows(g) THEN g1
            ELSE [g1 EXCEPT !.timer = "fishing"]

\* triggerFishBite(fish): the fish is hooked, it gets away in 2000 ms
TriggerFishBite(g, f) ==
    IF g.isReeling \/ g.caughtFish # NoFish THEN g
    ELSE [g EXCEPT !.caughtFish = f, !.fishBiteTimer = f]

\* startCatchAnimation()
StartCatchAnimation(g) ==
    IF g.caughtFish = NoFish THEN g
    ELSE [g EXCEPT !.isReeling = TRUE, !.catchAnimation = TRUE]

KeyDownSpace ==
    /\ script' = IF script.kbGrabbing
                 THEN [OnSqueezeStart(script) EXCEPT !.kbSqueezed = TRUE]
                 ELSE script

\* keyup Space: keyboardState.isSqueezed is cleared after onSqueezeEnd()
\* has returned
KeyUpSpace ==
    /\ script' = IF SqueezeEndThrows(script) THEN OnSqueezeEnd(script)
                 ELSE [OnSqueezeEnd(script) EXCEPT !.kbSqueezed = FALSE]

KeyDownE ==
    /\ script' = IF ~script.kbGrabbing
                 THEN SelectEventGrab([script EXCEPT !.kbGrabbing = TRUE],
                                      "undefined")
                 ELSE script

KeyUpE ==
    /\ script' = SelectEventGrabEnd([script EXCEPT !.kbGrabbing = FALSE])

\* keydown / keyup of a movement key
KeyDownMove(k) ==
    /\ script' = [script EXCEPT !.keysDown = @ \cup {k}]

KeyUpMove(k) ==
    /\ script' = [script EXCEPT !.keysDown = @ \ {k}]

\* keydown KeyF: catch the fish when it bites
KeyDownF ==
    /\ script' = IF script.caughtFish # NoFish /\ ~script.isReeling
                 THEN StartCatchAnimation(script) ELSE script

\* the Ammo().then callback: init() creates the fishing rod and the
\* controllers and registers the controller listeners, animate() starts
\* the render loop
AmmoReady ==
    /\ ~script.initialized
    /\ script' = [script EXCEPT !.initialized = TRUE,
                                !.rodParent = "scene",
                                !.rodPos = <<0, 1000, -500>>]

\* controllerR 'selectstart' / 'selectend' listeners, registered by init()
SelectStart ==
    /\ script.initialized
    /\ script' = SelectEventGrab(script, "selectstart")

SelectEnd ==
    /\ script.initialized
    /\ script' = SelectEventGrabEnd(script)

\* controllerR 'squeezestart' / 'squeezeend' listeners, registered by init()
SqueezeStart ==
    /\ script.initialized
    /\ script' = OnSqueezeStart(script)

SqueezeEnd ==
    /\ script.initialized
    /\ script' = OnSqueezeEnd(script)

\* the VR runtime moves the tracked right controller
MoveControllerR(p) ==
    /\ script.initialized
    /\ script.controllerRPos # p
    /\ script' = [script EXCEPT !.controllerRPos = p]

\* the animation loop runs render()
Render(hooked) ==
    /\ script.initialized
    /\ script.frames < MaxFrames
    /\ script' = [RenderFrame(script, hooked) EXCEPT !.frames = @ + 1]

\* one requestAnimationFrame callback of chargingAnimation
ChargingAnimation(dt) ==
    /\ script.isCharging
    /\ script.elapsed + dt <= MaxHold
    /\ script' = [script EXCEPT !.elapsed = @ + dt,
                                !.castPower = ChargedPower(script.elapsed + dt)]

\* the 1000 ms timer of onSqueezeEnd: startFishingLogic() clears the bite
\* timeout, checkForNearbyFish() lets a nearby fish bite (bite, NoFish when
\* none does) and the reset is armed
StartFishingLogic(bite) ==
    /\ script.timer = "fishing"
    /\ LET g1 == [script EXCEPT !.fishBiteTimer = NoFish]
           g2 == IF bite # NoFish /\ g1.caughtFish = NoFish /\ g1.isCasting
                 THEN TriggerFishBite(g1, bite) ELSE g1
       IN script' = [g2 EXCEPT !.timer = "reset"]

\* the 2000 ms timer of startFishingLogic
ResetForNextCast ==
    /\ script.timer = "reset"
    /\ script' = [script EXCEPT !.timer = "none", !.canCast = TRUE,
                                !.isCasting = FALSE]

\* the 2000 ms timer of triggerFishBite: the fish got away
FishBiteTimeout ==
    /\ script.fishBiteTimer # NoFish
    /\ script' = [script EXCEPT
                    !.fishBiteTimer = NoFish,
                    !.caughtFish = IF @ = script.fishBiteTimer
                                   THEN NoFish ELSE @]

\* the last frame of animateCatch (progress = 1): isReeling is cleared and
\* pullFishOut() takes the fish out of the lake; when the fish got away in
\* the meantime caughtFish is null, the frame throws a TypeError and
\* isReeling stays set
AnimateCatchEnd ==
    /\ script.catchAnimation
    /\ script' = IF script.caughtFish = NoFish
                 THEN [script EXCEPT !.catchAnimation = FALSE]
                 ELSE [script EXCEPT !.catchAnimation = FALSE,
                                     !.isReeling = FALSE]

\* ------------------------------------------------------------------------
\* script.js: distanceToLineSegment (coordinates in whole units; numbers are
\* kept as exact fractions num / den, NaN apart)
\* ------------------------------------------------------------------------
\* point, lineStart and lineEnd arguments
SegmentPoints == {<<x, y, z>> : x \in {-1, 0, 2}, y \in {0, 1}, z \in {0, 1}}

Sub3(p, q) == <<p[1] - q[1], p[2] - q[2], p[3] - q[3]>>
Dot3(p, q) == p[1] * q[1] + p[2] * q[2] + p[3] * q[3]

\* a / b for b >= 0, where b = 0 only with a = 0: 0 / 0 is NaN
Divide(a, b) == [isNaN |-> (b = 0), num |-> a, den |-> b]

\* Math.max(0, Math.min(1, t)): NaN goes through both
ClampT(t) ==
    IF t.isNaN THEN t ELSE [t EXCEPT !.num = Max(0, Min(t.den, t.num))]

\* distanceToLineSegment(point, lineStart, lineEnd); the distance returned
\* is kept as its square, the fraction num / den
distanceToLineSegment(point, lineStart, lineEnd) ==
    LET line         == Sub3(lineEnd, lineStart)
        pointToStart == Sub3(point, lineStart)
        t            == Divide(Dot3(pointToStart, line), Dot3(line, line))
        clampedT     == ClampT(t)
        \* closest = lineStart + line * clampedT, times clampedT.den
        closest      == Add3(Mul3(lineStart, clampedT.den),
                             Mul3(line, clampedT.num))
    IN IF clampedT.isNaN
       \* every coordinate of closest is NaN, and so is the distance
       THEN [isNaN |-> TRUE, num |-> 0, den |-> 0]
       ELSE [isNaN |-> FALSE,
             num |-> Dist2(Mul3(point, clampedT.den), closest),
             den |-> clampedT.den * clampedT.den]

LineInit ==
    lineCall = [op |-> "none", point |-> NoPos, lineStart |-> NoPos,
                lineEnd |-> NoPos,
                ret |-> [isNaN |-> FALSE, num |-> 0, den |-> 1]]

\* a call of distanceToLineSegment
DistanceToLineSegment(point, lineStart, lineEnd) ==
    /\ lineCall' = [op |-> "distanceToLineSegment", point |-> point,
                    lineStart |-> lineStart, lineEnd |-> lineEnd,
                    ret |-> distanceToLineSegment(point, lineStart, lineEnd)]

\* ------------------------------------------------------------------------
\* CelestialManager, Sun, Moon (angles in ten-thousandths of a radian;
\* sines, positions and light intensities in ten-thousandths)
\* ------------------------------------------------------------------------
\* time arguments of update, whole seconds
Times == 0..MaxTime

\* CelestialManager.update: angle = time * 0.02
CelestialAngle(time) == time * 200

\* (Math.cos(a) * radius, Math.sin(a) * radius, 0) with radius = 300
OrbitPosition(a) == <<CosU(a) * 300, SinU(a) * 300, 0>>

\* Sun.update without the Math.max(0.2, ...) floor
SunIntensity_NoFloor(angle) == (SinU(angle) * 8) \div 10 + 2000

\* Sun.update: Math.max(0.2, Math.sin(angle) * 0.8 + 0.2)
SunIntensity(angle) == Max(2000, (SinU(angle) * 8) \div 10 + 2000)

\* Moon.update: Math.max(0, moonHeight) * Math.max(0, -sunHeight) * 0.3
MoonIntensity(angle) ==
    LET moonHeight == SinU(angle + PiU)
        sunHeight  == SinU(angle)
    IN (((Max(0, moonHeight) * Max(0, -sunHeight)) \div 10000) * 3) \div 10

\* new CelestialManager(scene): spheres at the origin, directional light of
\* intensity 1, moon light of intensity 0.3
CelestialInit ==
    celestial = [op |-> "constructor", time |-> 0,
                 sunPos |-> <<0, 0, 0>>, sunIntensity |-> 10000,
                 moonPos |-> <<0, 0, 0>>, moonIntensity |-> 3000]

\* CelestialManager.update(time): sun.update(time, angle), moon.update(time,
\* angle); each light is moved to its sphere's direction at distance 50
CelestialUpdate(time) ==
    LET angle == CelestialAngle(time) IN
    /\ celestial' = [op |-> "update", time |-> time,
                     sunPos |-> OrbitPosition(angle),
                     sunIntensity |-> SunIntensity(angle),
                     moonPos |-> OrbitPosition(angle + PiU),
                     moonIntensity |-> MoonIntensity(angle)]

\* ------------------------------------------------------------------------
\* Specifications
\* ------------------------------------------------------------------------
Init == FishInit /\ RodInit /\ SceneInit /\ ScriptInit /\ LineInit
        /\ CelestialInit

notFish   == <<rodVars, sceneVars, scriptVars, lineVars, skyVars>>
notRod    == <<fishVars, sceneVars, scriptVars, lineVars, skyVars>>
notScene  == <<fishVars, rodVars, scriptVars, lineVars, skyVars>>
notScript == <<fishVars, rodVars, sceneVars, lineVars, skyVars>>
notLine   == <<fishVars, rodVars, sceneVars, scriptVars, skyVars>>
notSky    == <<fishVars, rodVars, sceneVars, scriptVars, lineVars>>

\* FishManager
Next ==
    \/ InitCall /\ UNCHANGED notFish
    \/ (\E t \in TYPES : LoadSuccess(t)) /\ UNCHANGED notFish
    \/ (\E t \in TYPES : LoadError(t)) /\ UNCHANGED notFish
    \/ (\E lp \in LinePositions \cup {NoPos}, dp \in PhaseSteps : Update(lp, dp))
       /\ UNCHANGED notFish
    \/ (\E lp \in LinePositions \cup {NoPos} : CheckForNearbyFish(lp))
       /\ UNCHANGED notFish
    \/ (\E id \in FishIds \cup {NoFish}, tp \in LandingPositions \cup {NoPos} :
          ThrowFish(id, tp)) /\ UNCHANGED notFish
    \/ (\E a \in anims, landed \in BOOLEAN : AnimateThrow(a, landed))
       /\ UNCHANGED notFish
    \/ (\E id \in FishIds, maxFlops \in MaxFlopsDraws : OnFishLanded(id, maxFlops))
       /\ UNCHANGED notFish
    \/ (\E fl \in flops : FlopTick(fl)) /\ UNCHANGED notFish
    \/ (\E id \in FishIds : RemoveFish(id)) /\ UNCHANGED notFish

Spec == Init /\ [][Next]_vars

\* FishingRod, on a scene made by SceneManager
NextRod ==
    \/ RodInitCall /\ UNCHANGED notRod
    \/ (\E ok \in BOOLEAN : RodInitResume(ok)) /\ UNCHANGED notRod
    \/ (\E c \in Controllers \cup {NoCtrl}, p \in CtrlPositions \cup {NoPos} :
          Grab(c, p)) /\ UNCHANGED notRod
    \/ (\E dir \in Directions, len \in ThrowLengths : Release(dir, len))
       /\ UNCHANGED notRod
    \/ (\E power \in Powers : StartCasting(power)) /\ UNCHANGED notRod
    \/ EndCasting /\ UNCHANGED notRod
    \/ ShowFishBite /\ UNCHANGED notRod
    \/ ResetFishBite /\ UNCHANGED notRod
    \/ (\E c \in Controllers, p \in CtrlPositions : MoveController(c, p))
       /\ UNCHANGED notRod
    \/ NewSceneManager /\ UNCHANGED notScene

SpecRod == Init /\ [][NextRod]_vars

\* script.js
NextScript ==
    \/ AmmoReady /\ UNCHANGED notScript
    \/ KeyDownSpace /\ UNCHANGED notScript
    \/ KeyUpSpace /\ UNCHANGED notScript
    \/ KeyDownE /\ UNCHANGED notScript
    \/ KeyUpE /\ UNCHANGED notScript
    \/ SelectStart /\ UNCHANGED notScript
    \/ SelectEnd /\ UNCHANGED notScript
    \/ SqueezeStart /\ UNCHANGED notScript
    \/ SqueezeEnd /\ UNCHANGED notScript
    \/ (\E p \in ControllerRPositions : MoveControllerR(p))
       /\ UNCHANGED notScript
    \/ (\E k \in MoveKeys : KeyDownMove(k)) /\ UNCHANGED notScript
    \/ (\E k \in MoveKeys : KeyUpMove(k)) /\ UNCHANGED notScript
    \/ KeyDownF /\ UNCHANGED notScript
    \/ (\E hooked \in ScriptFishes \cup {NoFish} : Render(hooked))
       /\ UNCHANGED notScript
    \/ (\E dt \in FrameTimes : ChargingAnimation(dt)) /\ UNCHANGED notScript
    \/ (\E bite \in ScriptFishes \cup {NoFish} : StartFishingLogic(bite))
       /\ UNCHANGED notScript
    \/ ResetForNextCast /\ UNCHANGED notScript
    \/ FishBiteTimeout /\ UNCHANGED notScript
    \/ AnimateCatchEnd /\ UNCHANGED notScript

SpecScript == Init /\ [][NextScript]_vars

\* distanceToLineSegment
NextLine ==
    \/ (\E point \in SegmentPoints, lineStart \in SegmentPoints,
           lineEnd \in SegmentPoints :
          DistanceToLineSegment(point, lineStart, lineEnd))
       /\ UNCHANGED notLine

SpecLine == Init /\ [][NextLine]_vars

\* CelestialManager
NextCelestial ==
    \/ (\E time \in Times : CelestialUpdate(time)) /\ UNCHANGED notSky

SpecCelestial == Init /\ [][NextCelestial]_vars

\* ------------------------------------------------------------------------
\* Claims
\* ------------------------------------------------------------------------
Swimming(f) == ~f.isCaught /\ ~f.isOnGround

DepthOk(f) ==
    /\ f.pos[2] >= (IF f.isRed THEN RedMinDepth ELSE RegularMinDepth)
    /\ f.pos[2] <= (IF f.isRed THEN RedMaxDepth ELSE RegularMaxDepth)
    /\ f.pos[2] < WaterLevel

\* C1: at most one fish that has not been thrown is caught at any time.
C1_OneCaughtAtATime ==
    Cardinality({id \in DOMAIN fish : id \notin thrown /\ fish[id].isCaught}) <= 1

\* C2: startCasting(power) on a rod that is not grabbed returns false and
\* leaves isCasting and castPower as they were; on a grabbed rod it returns
\* true and sets isCasting.
C2_CastOnlyWhenGrabbed ==
    [][\A power \in Powers :
         StartCasting(power) =>
           IF rod.isGrabbed
           THEN rodRet'.ret = "true" /\ rod'.isCasting
           ELSE /\ rodRet'.ret = "false"
                /\ rod'.isCasting = rod.isCasting
                /\ rod'.castPower = rod.castPower]_vars

\* a cast was started, the rod released, and a further startCasting refused
C2_Witness ==
    /\ rodRet.op = "startCasting" /\ rodRet.ret = "false"
    /\ ~rod.isGrabbed /\ rod.isCasting /\ rod.castPower > 0

\* the line of rod r is red and opaque if hasFishBite is set, and white at
\* opacity 0.6 if not
LineShowsBite(r) ==
    IF r.hasFishBite
    THEN r.lineColor = LINE_RED /\ r.lineOpacity = OPACITY_BITE
    ELSE r.lineColor = LINE_WHITE /\ r.lineOpacity = OPACITY_IDLE

\* C3: on a rod whose line exists, showFishBite sets hasFishBite and turns
\* the line red (0xff0000, opacity 1.0), resetFishBite clears it and turns
\* the line white (0xffffff, opacity 0.6), and release keeps the line red
\* exactly while hasFishBite is set: through any sequence of the three the
\* line is red if and only if hasFishBite is true, and white otherwise.
C3_LineRedIffBite ==
    [][rod.hasLine =>
         /\ ShowFishBite => rod'.hasFishBite /\ LineShowsBite(rod')
         /\ ResetFishBite => ~rod'.hasFishBite /\ LineShowsBite(rod')
         /\ \A dir \in Directions, len \in ThrowLengths :
              (Release(dir, len) /\ LineShowsBite(rod)) =>
                 LineShowsBite(rod')]_vars

\* showFishBite was called on a held rod with a line: the line is red
C3_Witness ==
    /\ rod.hasLine /\ rod.isGrabbed /\ rodRet.op = "showFishBite"
    /\ rod.hasFishBite /\ rod.lineColor = LINE_RED
    /\ rod.lineOpacity = OPACITY_BITE

\* C4: release() on a grabbed rod clears isGrabbed and hasFishBite and
\* returns a position with y = 0; on a rod that is not grabbed it changes
\* nothing.
C4_Release ==
    [][\A dir \in Directions, len \in ThrowLengths :
         Release(dir, len) =>
           IF rod.isGrabbed
           THEN /\ ~rod'.isGrabbed /\ ~rod'.hasFishBite
                /\ rodRet'.ret = "position" /\ rodRet'.pos[2] = 0
           ELSE rod' = rod /\ rodRet'.ret = "undefined"]_vars

\* C5: a VR grab returns true, sets isGrabbed and parents the rod to the
\* controller exactly when the controller position is within GRAB_RADIUS of
\* the rod; otherwise it returns false and leaves isGrabbed and the rod's
\* parent alone; grab() without a controller always returns true and sets
\* isGrabbed.
C5_GrabWithinRadius ==
    [][/\ \A c \in Controllers, p \in CtrlPositions :
            Grab(c, p) =>
              IF Dist2(p, RodWorldPos(rod, ctrlPos)) <= GRAB_RADIUS * GRAB_RADIUS
              THEN rodRet'.ret = "true" /\ rod'.isGrabbed /\ rod'.parent = c
              ELSE /\ rodRet'.ret = "false"
                   /\ rod'.isGrabbed = rod.isGrabbed
                   /\ rod'.parent = rod.parent
       /\ \A p \in CtrlPositions \cup {NoPos} :
            Grab(NoCtrl, p) => rodRet'.ret = "true" /\ rod'.isGrabbed]_vars

\* C6: every SceneManager construction yields the same scene.
C6_Singleton ==
    \A i, j \in 1..Len(managers) : managers[i].scene = managers[j].scene

\* C7: once init() has resolved no loader callback adds fish to fishes.
C7_LoadingOverAfterInit ==
    [][initState = "resolved" => Range(fishes') \subseteq Range(fishes)]_vars

\* C8: getFishes() is getAllFishes() without the fish thrown by throwFish,
\* and a thrown fish stays in getAllFishes() until removeFish takes it out.
C8_GetFishes ==
    /\ getFishes = SelectSeq(getAllFishes, LAMBDA id : id \notin thrown)
    /\ \A id \in thrown \ removed : id \in Range(getAllFishes)

\* a thrown fish is still listed by getAllFishes and no longer by getFishes
C8_Witness ==
    \E id \in thrown :
        /\ id \in Range(getAllFishes) /\ id \notin Range(getFishes)
        /\ Len(getFishes) > 0

\* C9 as stated: as created (before any call) and after every update each fish
\* that is neither caught nor on the ground is at its type's depth, below the
\* water level.
C9_SwimmingDepth ==
    (calls = 0 \/ lastCall.op = "update") =>
        \A id \in Range(fishes) : Swimming(fish[id]) => DepthOk(fish[id])

\* C9 amended: each fish that is neither caught, nor on the ground, nor out
\* of the water is at its type's depth, below the water level.
C9_SwimmingDepthInWater ==
    \A id \in Range(fishes) :
        (Swimming(fish[id]) /\ ~fish[id].isOutOfWater) => DepthOk(fish[id])

\* an update moved a swimming fish whose wave would have left the depth range
C9_Witness ==
    /\ lastCall.op = "update"
    /\ \E id \in Range(fishes) :
         LET f == fish[id] IN
         /\ Swimming(f) /\ ~f.isOutOfWater
         /\ f.baseY + ScaleU(SinU(2 * f.angle), f.verticalOffset) # f.pos[2]

\* C10: castPower of the rod and of script.js stay within [0, CAST_POWER_MAX].
C10_CastPowerRange ==
    /\ rod.castPower >= 0 /\ rod.castPower <= CAST_POWER_MAX
    /\ script.castPower >= 0 /\ script.castPower <= SCRIPT_CAST_POWER_MAX

\* C11: a fish that throwFish was called on is never returned by a later
\* checkForNearbyFish call and never has isCaught set again.
C11_ThrownNeverCaughtAgain ==
    /\ \A id \in thrown : ~fish[id].isCaught
    /\ lastCall.op = "checkForNearbyFish" => lastCall.ret \notin thrown

\* C12: after update, the rotation.y of every fish that swam is the heading
\* of its displacement (atan2 of the x and z it moved by, plus a quarter
\* turn), so fish that moved in different directions are turned differently.
C12_RotationFollowsMovement ==
    [][\A lp \in LinePositions \cup {NoPos}, dp \in PhaseSteps :
         Update(lp, dp) =>
           \A id \in Range(fishes) :
             (Swimming(fish[id]) /\ ~fish[id].isOutOfWater) =>
               fish'[id].rotY =
                 Atan2U(fish'[id].pos[1] - fish[id].pos[1],
                        fish'[id].pos[3] - fish[id].pos[3]) + HalfPiU]_vars

\* C13: after every CelestialManager.update(time) the sun light's intensity
\* is at least 0.2, the moon sphere is at the point opposite the sun sphere,
\* the moon light's intensity is 0 whenever sin(angle) >= 0, and it is never
\* above 0.3.
C13_CelestialLighting ==
    celestial.op = "update" =>
        /\ celestial.sunIntensity >= 2000
        /\ celestial.moonPos = Mul3(celestial.sunPos, -1)
        /\ SinU(CelestialAngle(celestial.time)) >= 0
              => celestial.moonIntensity = 0
        /\ celestial.moonIntensity >= 0 /\ celestial.moonIntensity <= 3000

\* deep night: the sun is below the horizon with its light at the 0.2 floor,
\* the moon is up and its light close to 0.3
C13_Witness ==
    /\ celestial.op = "update"
    /\ celestial.sunPos[2] < 0 /\ celestial.sunIntensity = 2000
    /\ celestial.moonPos[2] > 0 /\ celestial.moonIntensity > 2900

\* C14: a VR trigger press (selectstart) sets isRodGrabbed exactly when the
\* controller is within controllerActionRadius of the rod; a press made out
\* of reach leaves isRodGrabbed as it was.
C14_GrabbedOnlyInReach ==
    [][SelectStart =>
         script'.isRodGrabbed =
           (script.isRodGrabbed \/
            Dist2(script.controllerRPos, ObjectWorldPos(script))
                <= controllerActionRadius * controllerActionRadius)]_vars

\* C15: distanceToLineSegment returns the distance from the point to the
\* nearest point of the segment: to lineStart when the endpoints coincide or
\* the projection falls before lineStart, to lineEnd when it falls beyond
\* lineEnd, and the perpendicular distance otherwise.
C15_DistanceToSegment ==
    lineCall.op = "distanceToLineSegment" =>
        LET p == lineCall.point
            a == lineCall.lineStart
            b == lineCall.lineEnd
            L == Dist2(a, b)
            d == Dot3(Sub3(p, a), Sub3(b, a))
            r == lineCall.ret
        IN /\ ~r.isNaN
           /\ IF a = b \/ d <= 0 THEN r.num = Dist2(p, a) * r.den
              ELSE IF d >= L THEN r.num = Dist2(p, b) * r.den
              ELSE r.num * L = (Dist2(p, a) * L - d * d) * r.den

====
